---- MODULE Spec2Model ----
(***************************************************************************)
(* A model of src/shopping.py: ShoppingListSolver, which searches for      *)
(* every minimum-size set of stores whose inventories cover a shopping     *)
(* list.  The recursion of _solveHelper is unfolded into an explicit call  *)
(* stack, one action per step of a call, so that the state between two     *)
(* calls of _addSolution and the depth of the recursion are visible.       *)
(*                                                                         *)
(* Store indices are the code's (0-based); the sequences that hold the     *)
(* stores are TLA+ sequences (1-based), hence the "+ 1" at every access.   *)
(* The text written to the output file is not part of the state.           *)
(***************************************************************************)
EXTENDS Integers, Sequences, FiniteSets

\* ------------------------------------------------------------------ bounds

\* The largest number of stores in an inventory file.
MaxStores == 3

\* The largest total number of units held by all the stores of a file.
MaxStock == 4

\* The largest total number of units a shopping list asks for.
MaxDemand == 2

\* The item names that occur in the files.
Items == {"apple", "banana"}

\* sys.maxsize, the "no solution yet" value of _minSolLen.  The real value
\* is 2^63 - 1; the model only compares lengths with it, so the largest
\* integer of the model checker stands for it.
maxsize == 2147483647

\* The value _minSolLen is given before the first solve, when the attribute
\* does not exist yet (__init__ never assigns it).
NoAttribute == -1

VARIABLES
    inventoryFile,      \* the parsed content of the inventory file: data["stores"]
    storesNames,        \* self._storesNames
    storesInventories,  \* self._storesInventories: a defaultdict(int) per store
    numStores,          \* self._numStores
    shoppingList,       \* the shopping list parsed by the current (last) solve
    minSolLen,          \* self._minSolLen
    solutions,          \* self._solutions
    stack,              \* the frames of _solveHelper, the innermost last
    pc,                 \* "ready" (constructed), "solving", "done" (solve returned)
    candidates,         \* history: the solutions passed to _addSolution in this solve
    pruned              \* history: the combinations abandoned at line 100 in this solve

vars == <<inventoryFile, storesNames, storesInventories, numStores, shoppingList,
          minSolLen, solutions, stack, pc, candidates, pruned>>

\* ----------------------------------------------------------- dictionaries

Max(a, b) == IF a >= b THEN a ELSE b

\* The empty mapping, {} or defaultdict(int).
EmptyDict == [k \in {} |-> 0]

\* The mappings from some of the items to the quantities of Q.
Dicts(Q) == UNION {[K -> Q] : K \in SUBSET Items}

\* inventory[k] on a defaultdict(int): the value read (0 for a missing key).
Get(inventory, k) == IF k \in DOMAIN inventory THEN inventory[k] ELSE 0

\* inventory[k] on a defaultdict(int): the dictionary it leaves, which has
\* gained every looked-up key that was missing, with the value 0.
Vivify(inventory, keys) ==
    [k \in (DOMAIN inventory) \cup keys |-> Get(inventory, k)]

\* sum(d.values())
RECURSIVE SumValues(_)
SumValues(d) ==
    IF DOMAIN d = {} THEN 0
    ELSE LET k == CHOOSE x \in DOMAIN d : TRUE
         IN  d[k] + SumValues([j \in (DOMAIN d) \ {k} |-> d[j]])

\* ------------------------------------------------------ _parseInventoryFile

StoreNames == <<"A", "B", "C", "D", "E", "F", "G", "H">>

\* The entries a file may hold for its n-th store when `budget` units are
\* left: with no "inventory" field, or with one that lists some items, each
\* with a positive quantity.  (A store that lists nothing, or lists an item
\* with quantity 0, is in the state a store with no field is in after the
\* lookups of a solve, which Vivify reaches.)
StoreInfos(n, budget) ==
    {[name |-> StoreNames[n]]}
    \cup {[name |-> StoreNames[n], inventory |-> inv] :
            inv \in {d \in Dicts(1..budget) :
                        DOMAIN d # {} /\ SumValues(d) <= budget}}

\* The units a file entry holds.
Stock(storeInfo) ==
    IF "inventory" \in DOMAIN storeInfo THEN SumValues(storeInfo.inventory) ELSE 0

RECURSIVE TotalStock(_)
TotalStock(stores) ==
    IF stores = <<>> THEN 0
    ELSE Stock(Head(stores)) + TotalStock(Tail(stores))

\* The files of exactly n stores that hold at most MaxStock units in all.
RECURSIVE FilesOfLength(_)
FilesOfLength(n) ==
    IF n = 0 THEN {<<>>}
    ELSE UNION {{Append(f, s) : s \in StoreInfos(n, MaxStock - TotalStock(f))} :
                    f \in FilesOfLength(n - 1)}

InventoryFiles == UNION {FilesOfLength(n) : n \in 0..MaxStores}

\* Lines 58-61: the inventory of a store, empty when the field is missing.
ParseInventory(storeInfo) ==
    IF "inventory" \in DOMAIN storeInfo THEN storeInfo.inventory ELSE EmptyDict

\* The shopping lists a file may hold: some of the items, each with a
\* quantity that may be 0.
ShoppingLists == {d \in Dicts(0..MaxDemand) : SumValues(d) <= MaxDemand}

\* ----------------------------------------------------------- _solveHelper

\* Line 95: what is left of the shopping list after shopping in a store.
RemainingListNoClamp(list, inventory) ==
    LET left(k) == list[k] - Get(inventory, k)
    IN  [k \in {j \in DOMAIN list : left(j) # 0} |-> left(k)]

RemainingList(list, inventory) ==
    LET left(k) == Max(list[k] - Get(inventory, k), 0)
    IN  [k \in {j \in DOMAIN list : left(j) # 0} |-> left(k)]

\* Lines 98-99: the store took nothing off the list.
IsIrrelevantByCount(remainingList, list) ==
    Cardinality(DOMAIN remainingList) = Cardinality(DOMAIN list)

IsIrrelevant(remainingList, list) ==
    SumValues(remainingList) = SumValues(list)

\* Lines 91 and 106: the index handed to a recursive call.
SameIndex(currentIndex) == currentIndex

NextIndex(currentIndex) == currentIndex + 1

\* Lines 104 and 106: solutionSoFar + [currentIndex]
PrependIndex(solutionSoFar, currentIndex) == <<currentIndex>> \o solutionSoFar

ExtendSolution(solutionSoFar, currentIndex) == Append(solutionSoFar, currentIndex)

\* Lines 109-121: _addSolution, as the new (_minSolLen, _solutions).
AddSolutionKeepAll(minLen, sols, solution) ==
    IF Len(solution) > minLen THEN [minSolLen |-> minLen, solutions |-> sols]
    ELSE IF Len(solution) = minLen
         THEN [minSolLen |-> minLen, solutions |-> Append(sols, solution)]
         ELSE [minSolLen |-> Len(solution), solutions |-> Append(sols, solution)]

AddSolution(minLen, sols, solution) ==
    IF Len(solution) > minLen THEN [minSolLen |-> minLen, solutions |-> sols]
    ELSE IF Len(solution) = minLen
         THEN [minSolLen |-> minLen, solutions |-> Append(sols, solution)]
         ELSE [minSolLen |-> Len(solution),
               solutions |-> Append(SelectSeq(sols, LAMBDA x : Len(x) <= Len(solution)),
                                    solution)]

\* A frame of _solveHelper: its arguments, where it stands, and (history)
\* the number of recursive calls it has made.
Frame(list, solutionSoFar, currentIndex) ==
    [shoppingList |-> list, solutionSoFar |-> solutionSoFar,
     currentIndex |-> currentIndex, at |-> "enter", calls |-> 0]

Top == stack[Len(stack)]

Pop == SubSeq(stack, 1, Len(stack) - 1)

\* The frame on top moved to `at`, having made one more call.
Called(at) == [stack EXCEPT ![Len(stack)].at = at,
                            ![Len(stack)].calls = Top.calls + 1]

\* -------------------------------------------------------------------- Init

\* The state __init__ leaves: the inventory file parsed (lines 23-26, 42-67).
Init ==
    /\ inventoryFile \in InventoryFiles
    /\ storesNames = [i \in 1..Len(inventoryFile) |-> inventoryFile[i].name]
    /\ storesInventories =
           [i \in 1..Len(inventoryFile) |-> ParseInventory(inventoryFile[i])]
    /\ numStores = Len(inventoryFile)
    /\ shoppingList = EmptyDict
    /\ minSolLen = NoAttribute
    /\ solutions = <<>>
    /\ stack = <<>>
    /\ pc = "ready"
    /\ candidates = <<>>
    /\ pruned = {}

\* ----------------------------------------------------------------- actions

\* Line 36.
KeptMinSolLen == minSolLen

FreshMinSolLen == maxsize

\* Line 37.
KeptSolutions == solutions

FreshSolutions == <<>>

\* solve, lines 33-38: parse the shopping list, reset the result, and call
\* _solveHelper(shoppingList, [], 0).
Solve(list) ==
    /\ pc \in {"ready", "done"}
    /\ shoppingList' = list
    /\ minSolLen' = FreshMinSolLen
    /\ solutions' = FreshSolutions
    /\ stack' = <<Frame(list, <<>>, 0)>>
    /\ pc' = "solving"
    /\ candidates' = <<>>
    /\ pruned' = {}
    /\ UNCHANGED <<inventoryFile, storesNames, storesInventories, numStores>>

\* Lines 87-88: past the last store, return.
HelperBase ==
    /\ pc = "solving" /\ stack # <<>>
    /\ Top.at = "enter"
    /\ Top.currentIndex >= numStores
    /\ stack' = Pop
    /\ UNCHANGED <<inventoryFile, storesNames, storesInventories, numStores,
                   shoppingList, minSolLen, solutions, pc, candidates, pruned>>

\* Line 91: try without this store.
HelperExclude ==
    /\ pc = "solving" /\ stack # <<>>
    /\ Top.at = "enter"
    /\ Top.currentIndex < numStores
    /\ stack' = Append(Called("include"),
                       Frame(Top.shoppingList, Top.solutionSoFar,
                             NextIndex(Top.currentIndex)))
    /\ UNCHANGED <<inventoryFile, storesNames, storesInventories, numStores,
                   shoppingList, minSolLen, solutions, pc, candidates, pruned>>

\* Lines 94-95 of the frame on top: the store's inventory, what is left of
\* the list, and the inventories after the lookups.
TopInventory == storesInventories[Top.currentIndex + 1]

TopRemaining == RemainingList(Top.shoppingList, TopInventory)

Looked ==
    [storesInventories EXCEPT
        ![Top.currentIndex + 1] = Vivify(TopInventory, DOMAIN Top.shoppingList)]

\* Lines 94-100: the store takes nothing off the list, give the branch up.
HelperPrune ==
    /\ pc = "solving" /\ stack # <<>>
    /\ Top.at = "include"
    /\ IsIrrelevant(TopRemaining, Top.shoppingList)
    /\ storesInventories' = Looked
    /\ pruned' = pruned \cup {ExtendSolution(Top.solutionSoFar, Top.currentIndex)}
    /\ stack' = Pop
    /\ UNCHANGED <<inventoryFile, storesNames, numStores, shoppingList,
                   minSolLen, solutions, pc, candidates>>

\* Lines 94-104: nothing is left, register the combination.
HelperSatisfied ==
    /\ pc = "solving" /\ stack # <<>>
    /\ Top.at = "include"
    /\ ~IsIrrelevant(TopRemaining, Top.shoppingList)
    /\ SumValues(TopRemaining) = 0
    /\ LET solution == ExtendSolution(Top.solutionSoFar, Top.currentIndex)
           added == AddSolution(minSolLen, solutions, solution)
       IN  /\ minSolLen' = added.minSolLen
           /\ solutions' = added.solutions
           /\ candidates' = Append(candidates, solution)
    /\ storesInventories' = Looked
    /\ stack' = Pop
    /\ UNCHANGED <<inventoryFile, storesNames, numStores, shoppingList, pc, pruned>>

\* Lines 94-106: something is left, go on with the stores that follow.
HelperRecurse ==
    /\ pc = "solving" /\ stack # <<>>
    /\ Top.at = "include"
    /\ ~IsIrrelevant(TopRemaining, Top.shoppingList)
    /\ SumValues(TopRemaining) # 0
    /\ storesInventories' = Looked
    /\ stack' = Append(Called("return"),
                       Frame(TopRemaining,
                             ExtendSolution(Top.solutionSoFar, Top.currentIndex),
                             NextIndex(Top.currentIndex)))
    /\ UNCHANGED <<inventoryFile, storesNames, numStores, shoppingList,
                   minSolLen, solutions, pc, candidates, pruned>>

\* Line 106, after the call: return.
HelperReturn ==
    /\ pc = "solving" /\ stack # <<>>
    /\ Top.at = "return"
    /\ stack' = Pop
    /\ UNCHANGED <<inventoryFile, storesNames, storesInventories, numStores,
                   shoppingList, minSolLen, solutions, pc, candidates, pruned>>

\* Line 39 and lines 124-138: the search has returned; the report is
\* written (to a file, outside this state) and solve returns.
WriteSolutions ==
    /\ pc = "solving" /\ stack = <<>>
    /\ pc' = "done"
    /\ UNCHANGED <<inventoryFile, storesNames, storesInventories, numStores,
                   shoppingList, minSolLen, solutions, stack, candidates, pruned>>

\* A step of a running solve.
Step ==
    \/ HelperBase
    \/ HelperExclude
    \/ HelperPrune
    \/ HelperSatisfied
    \/ HelperRecurse
    \/ HelperReturn
    \/ WriteSolutions

Next ==
    \/ \E list \in ShoppingLists : Solve(list)
    \/ Step

Spec == Init /\ [][Next]_vars

\* A solve that has started runs on: the interpreter does not stop between
\* two statements.
FairSpec == Spec /\ WF_vars(Step)

\* ------------------------------------------------- the search as a function

\* _solveHelper run to its end from the state st = [minSolLen, solutions,
\* inventories] (lines 83-106), as the state it leaves.
RECURSIVE SolveHelperRun(_, _, _, _)
SolveHelperRun(st, list, solutionSoFar, currentIndex) ==
    IF currentIndex >= Len(st.inventories) THEN st
    ELSE LET excluded == SolveHelperRun(st, list, solutionSoFar, NextIndex(currentIndex))
             inventory == excluded.inventories[currentIndex + 1]
             remainingList == RemainingList(list, inventory)
             looked == [excluded EXCEPT !.inventories[currentIndex + 1] =
                                            Vivify(inventory, DOMAIN list)]
             solution == ExtendSolution(solutionSoFar, currentIndex)
         IN  IF IsIrrelevant(remainingList, list) THEN looked
             ELSE IF SumValues(remainingList) = 0
                  THEN LET added == AddSolution(looked.minSolLen, looked.solutions, solution)
                       IN  [looked EXCEPT !.minSolLen = added.minSolLen,
                                          !.solutions = added.solutions]
                  ELSE SolveHelperRun(looked, remainingList, solution,
                                      NextIndex(currentIndex))

\* The inventories of a solver that has just parsed the inventory file.
LoadedInventories ==
    [i \in 1..Len(inventoryFile) |-> ParseInventory(inventoryFile[i])]

\* solve(list) on a freshly constructed solver (lines 36-38).
FreshSolve(list) ==
    SolveHelperRun([minSolLen |-> maxsize, solutions |-> <<>>,
                    inventories |-> LoadedInventories], list, <<>>, 0)

\* ------------------------------------------------- what the claims speak of

Range(seq) == {seq[i] : i \in 1..Len(seq)}

Last(seq) == seq[Len(seq)]

StoreIds == 0..(Len(inventoryFile) - 1)

\* The units of item k that the stores of S hold, by the inventory file.
RECURSIVE StockOf(_, _)
StockOf(S, k) ==
    IF S = {} THEN 0
    ELSE LET s == CHOOSE x \in S : TRUE
         IN  Get(LoadedInventories[s + 1], k) + StockOf(S \ {s}, k)

\* The stores of S together cover the list.
Satisfies(S, list) ==
    \A k \in DOMAIN list : list[k] > 0 => StockOf(S, k) >= list[k]

Satisfying(list) == {S \in SUBSET StoreIds : Satisfies(S, list)}

\* The satisfying combinations of the smallest cardinality.
MinSolutions(list) ==
    LET sat == Satisfying(list)
    IN  {S \in sat : \A T \in sat : Cardinality(S) <= Cardinality(T)}

StrictlyAscending(seq) == \A i \in 1..(Len(seq) - 1) : seq[i] < seq[i + 1]

SolutionSets == {Range(solutions[i]) : i \in 1..Len(solutions)}

\* ------------------------------------------------------------------ claims

\* C1 (soundness): every combination in the solution list left by solve
\* covers the shopping list: each item asked for in a positive quantity is
\* held in at least that quantity by the stores of the combination together.
C1_Soundness ==
    pc = "done" =>
        \A i \in 1..Len(solutions) : Satisfies(Range(solutions[i]), shoppingList)

\* A solve has left two solutions of two stores each.
C1_Witness ==
    /\ pc = "done"
    /\ Len(solutions) >= 2
    /\ \A i \in 1..Len(solutions) : Len(solutions[i]) = 2

\* C2 (minimality), as claimed: after solve no combination smaller than
\* _minSolLen covers the list, and _minSolLen is the smallest cardinality of
\* a covering combination whenever one exists.
C2_Minimality ==
    pc = "done" =>
        /\ \A S \in Satisfying(shoppingList) : Cardinality(S) >= minSolLen
        /\ Satisfying(shoppingList) # {} =>
               \E S \in Satisfying(shoppingList) : Cardinality(S) = minSolLen

\* The part of C2 the code keeps: the same, for a list that asks for
\* something.
C2_MinimalityOfPositiveDemand ==
    (pc = "done" /\ SumValues(shoppingList) > 0) =>
        /\ \A S \in Satisfying(shoppingList) : Cardinality(S) >= minSolLen
        /\ Satisfying(shoppingList) # {} =>
               \E S \in Satisfying(shoppingList) : Cardinality(S) = minSolLen

\* C3 (completeness of ties), as claimed: every covering combination of the
\* smallest covering cardinality is in the solution list left by solve.
C3_Completeness ==
    pc = "done" => \A S \in MinSolutions(shoppingList) : S \in SolutionSets

\* The part of C3 the code keeps: the same, for a list that asks for
\* something.
C3_CompletenessOfPositiveDemand ==
    (pc = "done" /\ SumValues(shoppingList) > 0) =>
        \A S \in MinSolutions(shoppingList) : S \in SolutionSets

\* C4 (empty demand), as claimed: a solve of a list with no items, or with
\* nothing but zero quantities, ends with _minSolLen = 0 and exactly one
\* solution, the empty combination.
C4_EmptyDemand ==
    (pc = "done" /\ SumValues(shoppingList) = 0) =>
        /\ minSolLen = 0
        /\ solutions = << <<>> >>

\* What the code does instead: it ends as if nothing covered the list.
C4_EmptyDemandFindsNothing ==
    (pc = "done" /\ SumValues(shoppingList) = 0) =>
        /\ minSolLen = maxsize
        /\ solutions = <<>>

\* C5 (no solution is a result): when no set of stores covers the list,
\* solve ends with _minSolLen at sys.maxsize and an empty solution list.
C5_NoSolution ==
    (pc = "done" /\ Satisfying(shoppingList) = {}) =>
        /\ minSolLen = maxsize
        /\ solutions = <<>>

\* A solve has ended where two or more stores hold some of an item, and all
\* of them together too little of it.
C5_Witness ==
    /\ pc = "done"
    /\ Satisfying(shoppingList) = {}
    /\ numStores >= 2
    /\ \E k \in DOMAIN shoppingList :
           /\ StockOf(StoreIds, k) > 0
           /\ StockOf(StoreIds, k) < shoppingList[k]

\* C6 (no carry-over): whatever solves came before, solve(d) ends with the
\* _minSolLen and the set of solutions that solve(d) gives on a solver that
\* has just loaded the same inventory file.
C6_Idempotence ==
    pc = "done" =>
        LET fresh == FreshSolve(shoppingList)
        IN  /\ minSolLen = fresh.minSolLen
            /\ Range(solutions) = Range(fresh.solutions)

\* A solve with solutions has ended on a solver whose inventories hold a key
\* that neither the file nor this shopping list names: an earlier solve, of
\* another list, has left it there.
C6_Witness ==
    /\ pc = "done"
    /\ solutions # <<>>
    /\ \E i \in 1..numStores :
           \E k \in DOMAIN storesInventories[i] :
               /\ k \notin DOMAIN LoadedInventories[i]
               /\ k \notin DOMAIN shoppingList

\* C7 (single-length solution set): once _addSolution has been called in a
\* solve, every solution in _solutions has length _minSolLen, and _minSolLen
\* is the smallest length of the candidates registered so far.
C7_SingleLength ==
    candidates # <<>> =>
        /\ solutions # <<>>
        /\ \A i \in 1..Len(solutions) : Len(solutions[i]) = minSolLen
        /\ \E j \in 1..Len(candidates) : Len(candidates[j]) = minSolLen
        /\ \A j \in 1..Len(candidates) : Len(candidates[j]) >= minSolLen

\* A candidate has been registered after a longer one.
C7_Witness ==
    \E i, j \in 1..Len(candidates) :
        i < j /\ Len(candidates[i]) > Len(candidates[j])

\* C8 (the irrelevance prune is safe): no covering combination of the
\* smallest cardinality is made of a combination abandoned at line 100
\* (the running combination and store k) and stores of index above k.
\* `pruned` holds every combination abandoned since the solve began, so the
\* end of the solve is where all of them are judged.
C8_PruneSafe ==
    (pc = "done" /\ pruned # {}) =>
        LET minimal == MinSolutions(shoppingList)
        IN  \A p \in pruned :
                \A S \in minimal : {s \in S : s <= Last(p)} # Range(p)

\* A branch has been abandoned that led to covering combinations, none of
\* them of the smallest cardinality.
C8_Witness ==
    pc = "done" /\ \E p \in pruned :
        \E S \in Satisfying(shoppingList) :
            /\ {s \in S : s <= Last(p)} = Range(p)
            /\ Len(p) >= 2

\* The frames of _solveHelper hold the indices 0, 1, 2, ... in order (each
\* call is made with currentIndex + 1), there are never more than N + 1 of
\* them, and none has made more than two recursive calls.
FramesAdvance ==
    /\ Len(stack) <= numStores + 1
    /\ \A i \in 1..Len(stack) :
           /\ stack[i].currentIndex = i - 1
           /\ stack[i].calls <= 2

\* C9 (termination): each recursive call advances currentIndex by exactly
\* one, the recursion is never deeper than N + 1 frames, no call makes more
\* than two recursive calls, and every search that solve starts ends.
C9_Termination ==
    /\ []FramesAdvance
    /\ (pc = "solving") ~> (pc = "done")

\* The recursion is N + 1 frames deep, below a frame that has made its
\* second call.
C9_Witness ==
    /\ pc = "solving"
    /\ numStores >= 2
    /\ Len(stack) = numStores + 1
    /\ \E i \in 1..Len(stack) : stack[i].calls = 2

\* C10 (no duplicate or malformed solutions): in the list left by solve,
\* every solution is a strictly ascending sequence of store indices of
\* 0..N-1, and no two of them hold the same stores.
C10_WellFormed ==
    pc = "done" =>
        /\ \A i \in 1..Len(solutions) :
               /\ StrictlyAscending(solutions[i])
               /\ Range(solutions[i]) \subseteq 0..(numStores - 1)
        /\ \A i, j \in 1..Len(solutions) :
               i # j => Range(solutions[i]) # Range(solutions[j])

\* A solve has left several solutions, one of them of several stores.
C10_Witness ==
    /\ pc = "done"
    /\ Len(solutions) >= 2
    /\ \E i \in 1..Len(solutions) : Len(solutions[i]) >= 2

====
